---- MODULE Spec2Model ----
(***************************************************************************)
(* soap_injector.py: the template variable substitution and the request    *)
(* dispatch loop with its statistics, as a state machine.                  *)
(*                                                                         *)
(* Text is a sequence of one-character strings.                            *)
(***************************************************************************)
EXTENDS Integers, Sequences, FiniteSets, TLC

VARIABLES
    entry,              \* who drives the injector: "main" (the CLI) or "api" (a direct inject_multiple call)
    dir_exists,         \* environment: soap_dir exists
    dir_entries,        \* environment: the names in soap_dir
    unreadable,         \* environment: the names whose open()/read() fails
    count,              \* args.count
    delay,              \* args.delay
    pc,                 \* position in the program
    soap_files,         \* self.soap_files
    soap_file,          \* inject_single: the selected file
    content,            \* inject_single / _replace_variables: the template text
    variables,          \* inject_single / _replace_variables: the variable set, in dict order
    processed_content,  \* inject_single: the substituted text
    success,            \* inject_single's return value, FALSE before it returns
    stats,              \* inject_multiple: stats
    i,                  \* inject_multiple: loop index
    raised,             \* the exception in flight, "none" if there is none
    returned,           \* inject_multiple returned stats to its caller
    exit_code,          \* the process exit code, -1 while running
    attempts,           \* observer: calls of inject_single
    posts,              \* observer: calls of session.post
    sleeps,             \* observer: calls of time.sleep
    wire                \* observer: what the last session.post did

vars == <<entry, dir_exists, dir_entries, unreadable, count, delay, pc, soap_files,
          soap_file, content, variables, processed_content, success, stats, i,
          raised, returned, exit_code, attempts, posts, sleeps, wire>>

-----------------------------------------------------------------------------
(* Bounds *)

MaxCount == 3
MaxNeg == 1
MaxDelay == 1
MaxPieces == 4
MaxVars == 2

-----------------------------------------------------------------------------
(* Text *)

LB == "{"
RB == "}"

UUID == <<"U","U","I","D">>
UUID_UPPER == UUID \o <<"_","U","P","P","E","R">>
UUID_NO_DASH == UUID \o <<"_","N","O","_","D","A","S","H">>
TIMESTAMP == <<"T","I","M","E","S","T","A","M","P">>
TIMESTAMP_MS == TIMESTAMP \o <<"_","M","S">>
DATE == <<"D","A","T","E">>
TIME == <<"T","I","M","E">>
EPOCH == <<"E","P","O","C","H">>
RANDOM_ID == <<"R","A","N","D","O","M","_","I","D">>
RANDOM_ALPHA == <<"R","A","N","D","O","M","_","A","L","P","H","A">>
RANDOM_ALPHANUM == RANDOM_ALPHA \o <<"N","U","M">>

\* f"{{{{{var_name}}}}}"
Pattern(var_name) == <<LB, LB>> \o var_name \o <<RB, RB>>

StartsWithAt(s, p, n) ==
    /\ n + Len(p) - 1 <= Len(s)
    /\ SubSeq(s, n, n + Len(p) - 1) = p

Contains(s, p) == \E n \in 1..(Len(s) + 1) : StartsWithAt(s, p, n)

\* str.replace(old, new) for a non-empty old: every non-overlapping
\* occurrence, found left to right, is replaced.
RECURSIVE ReplaceFrom(_, _, _, _)
ReplaceFrom(s, old, new, n) ==
    IF n > Len(s) THEN <<>>
    ELSE IF StartsWithAt(s, old, n)
         THEN new \o ReplaceFrom(s, old, new, n + Len(old))
         ELSE <<s[n]>> \o ReplaceFrom(s, old, new, n + 1)

str_replace(s, old, new) == ReplaceFrom(s, old, new, 1)

\* The loop of _replace_variables from its k-th variable on: each variable
\* is replaced in the result the earlier variables left.
RECURSIVE ReplaceLoop(_, _, _)
ReplaceLoop(result, vs, k) ==
    IF k > Len(vs) THEN result
    ELSE ReplaceLoop(str_replace(result, Pattern(vs[k].name), vs[k].value), vs, k + 1)

replace_variables(c, vs) == ReplaceLoop(c, vs, 1)

-----------------------------------------------------------------------------
(* Inputs of the substitution *)

RECURSIVE Flatten(_)
Flatten(ps) == IF ps = <<>> THEN <<>> ELSE Head(ps) \o Flatten(Tail(ps))

Pieces ==
    { <<LB, LB>>, <<RB, RB>>,
      Pattern(UUID), Pattern(UUID_UPPER), Pattern(RANDOM_ALPHA),
      <<"R","A","N","D","O","M","_">>, <<" ">> }

Templates == { Flatten(ps) : ps \in UNION { [1..n -> Pieces] : n \in 0..MaxPieces } }

Names == { UUID, UUID_UPPER, RANDOM_ALPHA, RANDOM_ALPHANUM }

Values == { <<"X">>, <<"A","L","P","H","A","N","U","M">>, Pattern(UUID_UPPER) }

\* A dict: distinct names, in insertion order.
VariableSets ==
    { vs \in UNION { [1..n -> [name : Names, value : Values]] : n \in 0..MaxVars } :
        \A a, b \in 1..Len(vs) : a # b => vs[a].name # vs[b].name }

-----------------------------------------------------------------------------
(* Environment *)

Entries == { "a.xml", "b.xml", "notes.txt" }

XmlNames == { "a.xml", "b.xml" }

\* What open(soap_file).read() returns for a readable file.
FileText(f) ==
    CASE f = "a.xml" -> Pattern(UUID) \o <<" ">> \o Pattern(UUID)
      [] f = "b.xml" -> Pattern(UUID_UPPER) \o Pattern(RANDOM_ALPHA) \o Pattern(DATE)
      [] OTHER -> <<"n","o","t","e","s">>

Draws == { "1", "2" }

Entropy == [u1 : Draws, u2 : Draws, u3 : Draws, now : Draws, rnd : Draws]

Statuses == { 200, 204, 404, 500 }

\* What session.post does: a response with a status, or an exception.
Wire ==
    [kind : {"response"}, status : Statuses]
      \cup [kind : {"Timeout", "ConnectionError", "Exception"}, status : {0}]

Exceptions == { "FileNotFoundError", "ValueError", "OSError", "ZeroDivisionError" }

-----------------------------------------------------------------------------
(* SOAPInjector *)

\* self.soap_dir.glob("*.xml")
Glob(entries) == entries \cap XmlNames

\* _load_soap_files: the exception it raises, "none" if it returns.
LoadErrorMissingOnly(exists, files) ==
    IF ~exists THEN "FileNotFoundError" ELSE "none"
LoadError(exists, files) ==
    IF ~exists THEN "FileNotFoundError"
    ELSE IF files = {} THEN "ValueError"
    ELSE "none"

\* _generate_variables: the dict, in the order of its literal.
generate_variables(e) ==
    << [name |-> UUID,            value |-> <<"u", e.u1>>],
       [name |-> UUID_UPPER,      value |-> <<"U", e.u2>>],
       [name |-> UUID_NO_DASH,    value |-> <<"n", e.u3>>],
       [name |-> TIMESTAMP,       value |-> <<"d", "T", e.now>>],
       [name |-> TIMESTAMP_MS,    value |-> <<"d", "T", e.now, ".", "0">>],
       [name |-> DATE,            value |-> <<"d">>],
       [name |-> TIME,            value |-> <<e.now>>],
       [name |-> EPOCH,           value |-> <<"9", e.now>>],
       [name |-> RANDOM_ID,       value |-> <<"1", e.rnd>>],
       [name |-> RANDOM_ALPHA,    value |-> <<"A", "B">>],
       [name |-> RANDOM_ALPHANUM, value |-> <<"A", e.rnd>>] >>

\* _send_soap_request: its return value for what session.post did.
SendResult2xx(w) == w.kind = "response" /\ w.status \in 200..299
SendResult(w) == w.kind = "response" /\ w.status = 200

\* inject_multiple: the stats after one attempt's result.
Record(st, ok) ==
    IF ok THEN [st EXCEPT !.success = @ + 1]
          ELSE [st EXCEPT !.failed = @ + 1]

\* inject_multiple: i in range(1, count + 1)
InRangeExclusive(n, c) == 1 <= n /\ n < c
InRange(n, c) == 1 <= n /\ n <= c

\* inject_multiple: delay > 0 and i < count
ShouldSleepAlways(d, n, c) == d > 0
ShouldSleep(d, n, c) == d > 0 /\ n < c

\* inject_multiple: stats['success'] / stats['total'] raises for a zero total.
SuccessRateGuarded(st) == FALSE
SuccessRateRaises(st) == st.total = 0

\* main: the exit code after inject_multiple.
BatchExitCodeAnySuccess(st) == IF st.success > 0 THEN 0 ELSE 1
BatchExitCode(st) == IF st.failed = 0 THEN 0 ELSE 1

\* main: the exit code after inject_single.
SingleExitCode(ok) == IF ok THEN 0 ELSE 1

\* main calls inject_single for a count of 1, inject_multiple otherwise.
IsSingle == entry = "main" /\ count = 1

NoStats == [success |-> 0, failed |-> 0, total |-> 0]

NoWire == [kind |-> "none", status |-> 0]

-----------------------------------------------------------------------------
(* The program *)

Init ==
    /\ entry \in { "main", "api" }
    /\ dir_exists \in BOOLEAN
    /\ dir_entries \in SUBSET Entries
    /\ (~dir_exists => dir_entries = {})
    /\ unreadable \in SUBSET (dir_entries \cap XmlNames)
    /\ count \in (0 - MaxNeg)..MaxCount
    /\ delay \in (0 - 1)..MaxDelay
    /\ pc = "init"
    /\ soap_files = {}
    /\ soap_file = "none"
    /\ content = <<>>
    /\ variables = <<>>
    /\ processed_content = <<>>
    /\ success = FALSE
    /\ stats = NoStats
    /\ i = 0
    /\ raised = "none"
    /\ returned = FALSE
    /\ exit_code = -1
    /\ attempts = 0
    /\ posts = 0
    /\ sleeps = 0
    /\ wire = NoWire

\* SOAPInjector(args.soap_dir, args.endpoint, args.timeout)
Construct ==
    /\ pc = "init"
    /\ LET files == IF dir_exists THEN Glob(dir_entries) ELSE soap_files
           error == LoadError(dir_exists, files)
       IN  /\ soap_files' = files
           /\ raised' = error
           /\ pc' = IF error = "none" THEN "dispatch" ELSE "except"
    /\ UNCHANGED <<entry, dir_exists, dir_entries, unreadable, count, delay, soap_file,
                   content, variables, processed_content, success, stats, i, returned,
                   exit_code, attempts, posts, sleeps, wire>>

\* main: if args.count == 1: inject_single() else: inject_multiple(count, delay),
\* up to the loop of inject_multiple.
Dispatch ==
    /\ pc = "dispatch"
    /\ IF IsSingle
       THEN /\ pc' = "select"
            /\ UNCHANGED <<stats, i>>
       ELSE /\ stats' = [success |-> 0, failed |-> 0, total |-> count]
            /\ i' = 1
            /\ pc' = "loop"
    /\ UNCHANGED <<entry, dir_exists, dir_entries, unreadable, count, delay, soap_files,
                   soap_file, content, variables, processed_content, success, raised,
                   returned, exit_code, attempts, posts, sleeps, wire>>

\* inject_multiple: for i in range(1, count + 1)
LoopHead ==
    /\ pc = "loop"
    /\ pc' = IF InRange(i, count) THEN "select" ELSE "summary"
    /\ UNCHANGED <<entry, dir_exists, dir_entries, unreadable, count, delay, soap_files,
                   soap_file, content, variables, processed_content, success, stats, i,
                   raised, returned, exit_code, attempts, posts, sleeps, wire>>

\* inject_single: soap_file = self._select_random_soap()
Select ==
    /\ pc = "select"
    /\ soap_file' \in soap_files
    /\ attempts' = attempts + 1
    /\ success' = FALSE
    /\ wire' = NoWire
    /\ pc' = "load"
    /\ UNCHANGED <<entry, dir_exists, dir_entries, unreadable, count, delay, soap_files,
                   content, variables, processed_content, stats, i, raised, returned,
                   exit_code, posts, sleeps>>

\* inject_single: content = self._load_soap_content(soap_file); a read error
\* is logged and raised again, and nothing up to main handles it.
Load ==
    /\ pc = "load"
    /\ IF soap_file \in unreadable
       THEN /\ raised' = "OSError"
            /\ pc' = "except"
            /\ UNCHANGED content
       ELSE /\ content' = FileText(soap_file)
            /\ pc' = "generate"
            /\ UNCHANGED raised
    /\ UNCHANGED <<entry, dir_exists, dir_entries, unreadable, count, delay, soap_files,
                   soap_file, variables, processed_content, success, stats, i, returned,
                   exit_code, attempts, posts, sleeps, wire>>

\* inject_single: variables = self._generate_variables()
Generate ==
    /\ pc = "generate"
    /\ \E e \in Entropy : variables' = generate_variables(e)
    /\ pc' = "replace"
    /\ UNCHANGED <<entry, dir_exists, dir_entries, unreadable, count, delay, soap_files,
                   soap_file, content, processed_content, success, stats, i, raised,
                   returned, exit_code, attempts, posts, sleeps, wire>>

\* inject_single: processed_content = self._replace_variables(content, variables)
Replace ==
    /\ pc = "replace"
    /\ processed_content' = replace_variables(content, variables)
    /\ pc' = "send"
    /\ UNCHANGED <<entry, dir_exists, dir_entries, unreadable, count, delay, soap_files,
                   soap_file, content, variables, success, stats, i, raised, returned,
                   exit_code, attempts, posts, sleeps, wire>>

\* inject_single: return self._send_soap_request(processed_content, soap_file.name);
\* the locals of inject_single end with it.
Send ==
    /\ pc = "send"
    /\ \E w \in Wire :
         /\ wire' = w
         /\ success' = SendResult(w)
    /\ posts' = posts + 1
    /\ content' = <<>>
    /\ variables' = <<>>
    /\ processed_content' = <<>>
    /\ pc' = IF IsSingle THEN "exit_single" ELSE "record"
    /\ UNCHANGED <<entry, dir_exists, dir_entries, unreadable, count, delay, soap_files,
                   soap_file, stats, i, raised, returned, exit_code, attempts, sleeps>>

\* inject_multiple: if success: stats['success'] += 1 else: stats['failed'] += 1
RecordOutcome ==
    /\ pc = "record"
    /\ stats' = Record(stats, success)
    /\ pc' = "delay"
    /\ UNCHANGED <<entry, dir_exists, dir_entries, unreadable, count, delay, soap_files,
                   soap_file, content, variables, processed_content, success, i, raised,
                   returned, exit_code, attempts, posts, sleeps, wire>>

\* inject_multiple: if delay > 0 and i < count: time.sleep(delay); next i
Delay ==
    /\ pc = "delay"
    /\ sleeps' = IF ShouldSleep(delay, i, count) THEN sleeps + 1 ELSE sleeps
    /\ i' = i + 1
    /\ pc' = "loop"
    /\ UNCHANGED <<entry, dir_exists, dir_entries, unreadable, count, delay, soap_files,
                   soap_file, content, variables, processed_content, success, stats,
                   raised, returned, exit_code, attempts, posts, wire>>

\* inject_multiple: success_rate, the summary box, return stats
Summary ==
    /\ pc = "summary"
    /\ IF SuccessRateRaises(stats)
       THEN /\ raised' = "ZeroDivisionError"
            /\ pc' = "except"
            /\ UNCHANGED returned
       ELSE /\ returned' = TRUE
            /\ pc' = "return_multiple"
            /\ UNCHANGED raised
    /\ UNCHANGED <<entry, dir_exists, dir_entries, unreadable, count, delay, soap_files,
                   soap_file, content, variables, processed_content, success, stats, i,
                   exit_code, attempts, posts, sleeps, wire>>

\* main: exit(0 if success else 1)
ExitSingle ==
    /\ pc = "exit_single"
    /\ exit_code' = SingleExitCode(success)
    /\ pc' = "exited"
    /\ UNCHANGED <<entry, dir_exists, dir_entries, unreadable, count, delay, soap_files,
                   soap_file, content, variables, processed_content, success, stats, i,
                   raised, returned, attempts, posts, sleeps, wire>>

\* main: exit(0 if stats['failed'] == 0 else 1)
ExitBatch ==
    /\ pc = "return_multiple"
    /\ entry = "main"
    /\ exit_code' = BatchExitCode(stats)
    /\ pc' = "exited"
    /\ UNCHANGED <<entry, dir_exists, dir_entries, unreadable, count, delay, soap_files,
                   soap_file, content, variables, processed_content, success, stats, i,
                   raised, returned, attempts, posts, sleeps, wire>>

\* main: except Exception as e: logging.error(...); exit(1)
Fatal ==
    /\ pc = "except"
    /\ entry = "main"
    /\ exit_code' = 1
    /\ pc' = "exited"
    /\ UNCHANGED <<entry, dir_exists, dir_entries, unreadable, count, delay, soap_files,
                   soap_file, content, variables, processed_content, success, stats, i,
                   raised, returned, attempts, posts, sleeps, wire>>

Next ==
    \/ Construct
    \/ Dispatch
    \/ LoopHead
    \/ Select
    \/ Load
    \/ Generate
    \/ Replace
    \/ Send
    \/ RecordOutcome
    \/ Delay
    \/ Summary
    \/ ExitSingle
    \/ ExitBatch
    \/ Fatal

Spec == Init /\ [][Next]_vars

-----------------------------------------------------------------------------
(* _replace_variables on its own: every template and variable set of the   *)
(* bounds, and the one step that applies it.                               *)

InitReplace ==
    /\ entry = "api"
    /\ dir_exists = TRUE
    /\ dir_entries = {}
    /\ unreadable = {}
    /\ count = 1
    /\ delay = 0
    /\ pc = "replace"
    /\ soap_files = {}
    /\ soap_file = "none"
    /\ content \in Templates
    /\ variables \in VariableSets
    /\ processed_content = <<>>
    /\ success = FALSE
    /\ stats = NoStats
    /\ i = 0
    /\ raised = "none"
    /\ returned = FALSE
    /\ exit_code = -1
    /\ attempts = 0
    /\ posts = 0
    /\ sleeps = 0
    /\ wire = NoWire

NextReplace == Replace

SpecReplace == InitReplace /\ [][NextReplace]_vars

-----------------------------------------------------------------------------
(* Properties *)

\* The run is over: main has exited, or inject_multiple has returned to, or
\* raised into, the code that called it.
Ended ==
    \/ pc = "exited"
    \/ entry = "api" /\ pc \in { "except", "return_multiple" }

SetupErrors == { "FileNotFoundError", "ValueError" }

\* An exception left inject_multiple.
InjectMultipleRaised == ~IsSingle /\ raised \in Exceptions \ SetupErrors

\* Some step of the program can be taken (Replace has no condition but its
\* place in the program).
CanStep ==
    \/ pc = "replace"
    \/ ENABLED (Construct \/ Dispatch \/ LoopHead \/ Select \/ Load \/ Generate \/ Send
                  \/ RecordOutcome \/ Delay \/ Summary \/ ExitSingle \/ ExitBatch \/ Fatal)

Min(a, b) == IF a < b THEN a ELSE b

\* C1: whenever inject_multiple returns its statistics, success + failed
\* equals total, for every count the command line accepts.
C1_StatsAddUp ==
    returned => stats.success + stats.failed = stats.total

\* C2: for a count of at least 1 no exception leaves inject_multiple, a
\* failed read of the selected template included: the attempt is counted as
\* failed, the remaining attempts run and the statistics are returned.
C2_ReadErrorAbsorbed ==
    (count >= 1 /\ ~IsSingle) =>
        /\ ~InjectMultipleRaised
        /\ (Ended /\ raised = "none" => returned /\ attempts = count)

\* C4: for a count of 0 the batch run fails: no injection is attempted, no
\* request is sent and no statistics are returned.
C4_ZeroCountRejected ==
    (count = 0 /\ raised \notin SetupErrors) =>
        /\ attempts = 0
        /\ posts = 0
        /\ ~returned
        /\ (Ended => raised \in Exceptions)
        /\ (pc = "exited" => exit_code = 1)

C4_Witness ==
    count = 0 /\ pc = "exited" /\ raised = "ZeroDivisionError" /\ exit_code = 1

\* C5: for a count of at least 1 a batch run makes exactly count attempts,
\* each with exactly one POST, whatever mix of True and False the attempts
\* return, and returns a total equal to count: attempt i starts after i - 1
\* attempts and i - 1 POSTs, and the run ends without returning only with an
\* exception in flight.
C5_ExactlyCountAttempts ==
    (count >= 1 /\ ~IsSingle /\ i >= 1) =>
        /\ (returned => attempts = count /\ posts = count /\ stats.total = count)
        /\ (pc = "loop" => attempts = i - 1 /\ posts = i - 1)
        /\ (pc \in { "record", "delay" } => attempts = i /\ posts = i)
        /\ (Ended /\ ~returned => raised # "none")
        /\ (raised = "none" => attempts <= count /\ posts <= attempts)

C5_Witness ==
    /\ returned
    /\ count >= 2
    /\ stats.success >= 1
    /\ stats.failed >= 1
    /\ posts = count

\* C6: in a batch run of count >= 1 attempts the delay sleep has happened
\* i - 1 times when attempt i starts and while it runs, count - 1 times when
\* the run is over, if delay > 0, and never if delay <= 0; it comes after
\* the attempt's outcome is recorded.
C6_SleepsBetweenAttempts ==
    /\ (IsSingle => sleeps = 0)
    /\ (count >= 1 /\ ~IsSingle /\ i >= 1) =>
          /\ sleeps = IF delay > 0 THEN Min(i, count) - 1 ELSE 0
          /\ (returned => sleeps = IF delay > 0 THEN count - 1 ELSE 0)
          /\ (pc = "delay" => stats.success + stats.failed = i)

C6_Witness ==
    returned /\ delay > 0 /\ count = 3 /\ sleeps = 2

\* C7: every call of _send_soap_request returns True or False and raises
\* nothing: True exactly for a response with status 200, False for any
\* other status, a timeout, a connection failure and any other exception.
C7_SendClassifies ==
    wire # NoWire =>
        /\ success \in BOOLEAN
        /\ (success <=> (wire.kind = "response" /\ wire.status = 200))
        /\ raised = "none"
        /\ pc # "except"

C7_Witness ==
    wire.kind = "response" /\ wire.status = 204 /\ success = FALSE /\ posts = 2

\* C8: main exits with 0 when the single injection succeeds or the batch
\* returns without a failed attempt, with 1 when the single injection
\* fails, the batch has a failed attempt or the setup fails; it exits with
\* no other code, and it always can go on until it exits.
C8_ExitCode ==
    /\ (pc = "exited" =>
          /\ exit_code \in { 0, 1 }
          /\ (raised \in SetupErrors => exit_code = 1)
          /\ (IsSingle /\ success => exit_code = 0)
          /\ (IsSingle /\ ~success => exit_code = 1)
          /\ (~IsSingle /\ returned /\ stats.failed = 0 => exit_code = 0)
          /\ (~IsSingle /\ returned /\ stats.failed >= 1 => exit_code = 1))
    /\ (pc # "exited" => exit_code = -1)
    /\ (entry = "main" /\ pc # "exited" => CanStep)

C8_Witness ==
    /\ pc = "exited"
    /\ returned
    /\ stats.success >= 1
    /\ stats.failed >= 1
    /\ exit_code = 1

\* C9: with the template directory missing or without an *.xml file the
\* construction raises (FileNotFoundError / ValueError), no attempt is made,
\* no request is sent and main exits with 1; whenever an attempt is made the
\* loaded set is not empty and the selected template is one of the loaded
\* *.xml files of the directory.
C9_SetupErrorsAbort ==
    /\ (~dir_exists \/ dir_entries \cap XmlNames = {}) =>
          /\ attempts = 0
          /\ posts = 0
          /\ (pc # "init" =>
                raised = IF dir_exists THEN "ValueError" ELSE "FileNotFoundError")
          /\ pc \in { "init", "except", "exited" }
          /\ (pc = "exited" => exit_code = 1)
    /\ attempts > 0 =>
          /\ soap_files # {}
          /\ soap_file \in soap_files
          /\ soap_files = dir_entries \cap XmlNames

C9_Witness ==
    /\ dir_exists
    /\ dir_entries = { "notes.txt" }
    /\ raised = "ValueError"
    /\ pc = "exited"
    /\ exit_code = 1

-----------------------------------------------------------------------------
(* Properties of _replace_variables *)

NoBraces(t) == \A n \in 1..Len(t) : t[n] \notin { LB, RB }

\* The variable whose token {{name}} starts at position n of s, 0 if none.
TokenAt(s, vs, n) ==
    IF \E a \in 1..Len(vs) : StartsWithAt(s, Pattern(vs[a].name), n)
    THEN CHOOSE a \in 1..Len(vs) : StartsWithAt(s, Pattern(vs[a].name), n)
    ELSE 0

\* One pass over s from position n: each token of a key is replaced by the
\* key's value, all other text is copied, and nothing inserted is read again.
RECURSIVE SinglePass(_, _, _)
SinglePass(s, vs, n) ==
    IF n > Len(s) THEN <<>>
    ELSE IF TokenAt(s, vs, n) # 0
         THEN vs[TokenAt(s, vs, n)].value
                \o SinglePass(s, vs, n + Len(Pattern(vs[TokenAt(s, vs, n)].name)))
         ELSE <<s[n]>> \o SinglePass(s, vs, n + 1)

\* C3: a value that holds the token of another key of the set and is
\* inserted for its own token is not expanded: it is in the output as it is.
C3_InsertedValueIsLiteral ==
    pc = "send" =>
        \A a \in 1..Len(variables) :
            ( /\ Contains(content, Pattern(variables[a].name))
              /\ \E b \in 1..Len(variables) :
                    b # a /\ Contains(variables[a].value, Pattern(variables[b].name)) )
            => Contains(processed_content, variables[a].value)

\* C10: with no brace in any value the output is the template with every
\* token {{K}} of a key K replaced by K's value and all other text as it was.
C10_TokensReplacedRestKept ==
    (pc = "send" /\ \A a \in 1..Len(variables) : NoBraces(variables[a].value)) =>
        processed_content = SinglePass(content, variables, 1)

====
